---- MODULE Spec2Model ----
(***************************************************************************)
(* Model of the SAFE-LINK command line scanner: the evidence aggregator    *)
(* F_Data, the verdict scorer F_VF and the F_UI driver that runs one after *)
(* the other.                                                              *)
(*                                                                         *)
(* Text is modelled as a sequence of atoms.  An atom is a group of         *)
(* characters that none of the modelled operations ever splits: a scheme   *)
(* prefix, the "www." label, a host label, a blank, a query.  A scheme atom  *)
(* occurs only at the front of the texts the model feeds to the program.   *)
(***************************************************************************)
EXTENDS Integers, Sequences, FiniteSets, TLC

(***************************************************************************)
(* Bounds of the model.                                                    *)
(***************************************************************************)
\* dns.lookup(host, {all: true}) resolves with 0..MaxIps addresses.
MaxIps == 2
\* The scorer is applied to records holding 0..MaxErrors error entries.
MaxErrors == 2

(***************************************************************************)
(* Text.                                                                   *)
(***************************************************************************)
SchemeAtoms == {"http://", "https://", "HTTPS://"}
HostAtoms == {"www.", "a.com", "b.com"}
Blank == " "
\* What ends the host of a URL: here a query.
PathAtoms == {"?q"}

\* String.prototype.toLowerCase, atom by atom.
LowerAtom(a) == IF a = "HTTPS://" THEN "https://" ELSE a
toLowerCase(s) == [i \in DOMAIN s |-> LowerAtom(s[i])]

\* String.prototype.startsWith.
startsWith(s, p) == Len(s) >= Len(p) /\ SubSeq(s, 1, Len(p)) = p

\* String.prototype.trim: drops the leading and the trailing blanks.
RECURSIVE TrimLeft(_)
TrimLeft(s) == IF s # <<>> /\ Head(s) = Blank THEN TrimLeft(Tail(s)) ELSE s
RECURSIVE TrimRight(_)
TrimRight(s) ==
    IF s # <<>> /\ s[Len(s)] = Blank THEN TrimRight(SubSeq(s, 1, Len(s) - 1)) ELSE s
trim(s) == TrimRight(TrimLeft(s))

\* Mutant: the prefix is matched in lower case only.
HasSchemePrefix_CaseSensitive(s) == s # <<>> /\ s[1] \in {"http://", "https://"}
\* /^https?:\/\//i.test(s)
HasSchemePrefix(s) == s # <<>> /\ LowerAtom(s[1]) \in {"http://", "https://"}

normalizeUrl(raw) ==
    LET s == trim(raw)
    IN  IF ~HasSchemePrefix(s) THEN <<"https://">> \o s ELSE s

\* new URL(url): the parser drops surrounding blanks, wants a scheme, then a
\* non-empty host that runs up to the path and holds host characters only.
RECURSIVE HostPart(_)
HostPart(s) ==
    IF s = <<>> \/ Head(s) \in PathAtoms THEN <<>> ELSE <<Head(s)>> \o HostPart(Tail(s))
\* Mutant: any text after the scheme passes for a host.
UrlParses_NoHostCheck(url) ==
    LET s == trim(url)
    IN  /\ HasSchemePrefix(s)
        /\ HostPart(Tail(s)) # <<>>
UrlParses(url) ==
    LET s == trim(url)
    IN  /\ HasSchemePrefix(s)
        /\ HostPart(Tail(s)) # <<>>
        /\ \A i \in DOMAIN HostPart(Tail(s)) : HostPart(Tail(s))[i] \in HostAtoms
\* new URL(url).hostname, defined when UrlParses(url).
getHost(url) == toLowerCase(HostPart(Tail(trim(url))))

\* Mutant: the hosts are compared as they are.
stripWww_None(host) == host
stripWww(host) == IF startsWith(host, <<"www.">>) THEN SubSeq(host, 2, Len(host)) ELSE host

(***************************************************************************)
(* Optional fields (geo?, http?, tls?, whois?) are sequences of length at  *)
(* most one: <<>> is the absent field, <<v>> the field holding v.          *)
(***************************************************************************)
Absent == <<>>
Present(v) == <<v>>
IsPresent(f) == f # <<>>
ValueOf(f) == f[1]

\* A reason or error line: its fixed text and the interpolated part.
Line(text, arg) == <<text, arg>>

(***************************************************************************)
(* F_VF: the verdict scorer.  Each section of the function is one pair of  *)
(* operators: what it adds to score and what it pushes on reasons.         *)
(***************************************************************************)
isHttps(d) == startsWith(toLowerCase(d.targetUrl), <<"https://">>)

HttpsScore(d) == IF ~isHttps(d) THEN 3 ELSE 0
HttpsReasons(d) ==
    IF ~isHttps(d) THEN <<Line("Not using HTTPS", <<>>)>> ELSE <<Line("Uses HTTPS", <<>>)>>

StatusScore(d) ==
    IF IsPresent(d.http)
    THEN IF ValueOf(d.http).status >= 400 THEN 2 ELSE 0
    ELSE 2
StatusReasons(d) ==
    IF IsPresent(d.http)
    THEN IF ValueOf(d.http).status >= 400
         THEN <<Line("HTTP error status: ", <<ValueOf(d.http).status>>)>>
         ELSE <<Line("HTTP status OK: ", <<ValueOf(d.http).status>>)>>
    ELSE <<Line("HTTP request failed", <<>>)>>

\* if (d.http?.finalUrl): http is there and its finalUrl is not the empty string.
HasFinalUrl(d) == IsPresent(d.http) /\ ValueOf(d.http).finalUrl # <<>>
\* Mutant: the catch branch adds the mismatch weight.
RedirectScore_CatchTwo(d) ==
    IF HasFinalUrl(d)
    THEN IF UrlParses(ValueOf(d.http).finalUrl)
         THEN IF stripWww(getHost(ValueOf(d.http).finalUrl)) # stripWww(d.host) THEN 2 ELSE 0
         ELSE 2
    ELSE 0
RedirectScore(d) ==
    IF HasFinalUrl(d)
    THEN IF UrlParses(ValueOf(d.http).finalUrl)
         THEN IF stripWww(getHost(ValueOf(d.http).finalUrl)) # stripWww(d.host) THEN 2 ELSE 0
         ELSE 1
    ELSE 0
RedirectReasons(d) ==
    IF HasFinalUrl(d)
    THEN IF UrlParses(ValueOf(d.http).finalUrl)
         THEN IF stripWww(getHost(ValueOf(d.http).finalUrl)) # stripWww(d.host)
              THEN <<Line("Redirected to different host: ", getHost(ValueOf(d.http).finalUrl))>>
              ELSE <<>>
         ELSE <<Line("Could not parse final redirect URL", <<>>)>>
    ELSE <<>>

\* Mutant: a missing certificate weighs 2.
TlsScore_Two(d) == IF ~IsPresent(d.tls) THEN 2 ELSE 0
TlsScore(d) == IF ~IsPresent(d.tls) THEN 3 ELSE 0
TlsReasons(d) ==
    IF ~IsPresent(d.tls)
    THEN <<Line("No TLS certificate info", <<>>)>>
    ELSE <<Line("TLS certificate present", <<>>)>>

WhoisScore(d) == IF ~IsPresent(d.whois) THEN 1 ELSE 0
WhoisReasons(d) ==
    IF ~IsPresent(d.whois)
    THEN <<Line("WHOIS lookup missing or failed", <<>>)>>
    ELSE <<Line("WHOIS data found", <<>>)>>

ErrorsScore(d) == IF Len(d.errors) # 0 THEN 1 ELSE 0
ErrorsReasons(d) ==
    IF Len(d.errors) # 0 THEN <<Line("Errors encountered: ", <<Len(d.errors)>>)>> ELSE <<>>

\* The value of the local `score` after each section of F_VF, the last one being
\* its value at the end, and the value of the local `reasons` at the end.
VFTrace(d) ==
    LET s1 == 0 + HttpsScore(d)
        s2 == s1 + StatusScore(d)
        s3 == s2 + RedirectScore(d)
        s4 == s3 + TlsScore(d)
        s5 == s4 + WhoisScore(d)
        s6 == s5 + ErrorsScore(d)
    IN  <<s1, s2, s3, s4, s5, s6>>
VFScore(d) == VFTrace(d)[6]
\* Mutant: the WHOIS section runs before the TLS section.
VFReasons_WhoisFirst(d) ==
    HttpsReasons(d) \o StatusReasons(d) \o RedirectReasons(d) \o WhoisReasons(d)
        \o TlsReasons(d) \o ErrorsReasons(d)
VFReasons(d) ==
    HttpsReasons(d) \o StatusReasons(d) \o RedirectReasons(d) \o TlsReasons(d)
        \o WhoisReasons(d) \o ErrorsReasons(d)

\* Score -> Stars/Label
\* Mutant: the last threshold is compared with < instead of <=.
StarsOf_Strict(score) ==
    IF score <= 1 THEN 5
    ELSE IF score <= 3 THEN 4
    ELSE IF score <= 5 THEN 3
    ELSE IF score < 7 THEN 2
    ELSE 1
StarsOf(score) ==
    IF score <= 1 THEN 5
    ELSE IF score <= 3 THEN 4
    ELSE IF score <= 5 THEN 3
    ELSE IF score <= 7 THEN 2
    ELSE 1
LabelOf(score) ==
    IF score <= 1 THEN "SAFE"
    ELSE IF score <= 3 THEN "SAFE"
    ELSE IF score <= 5 THEN "CAUTION"
    ELSE IF score <= 7 THEN "RISKY"
    ELSE "RISKY"

\* reasons.slice(0, 8)
ReasonsKept == 8
\* Mutant: the list is cut after five reasons.
slice8_Five(rs) == SubSeq(rs, 1, IF Len(rs) < 5 THEN Len(rs) ELSE 5)
slice8(rs) == SubSeq(rs, 1, IF Len(rs) < ReasonsKept THEN Len(rs) ELSE ReasonsKept)

VFLocals(d) == [score |-> VFScore(d), trace |-> VFTrace(d), reasons |-> VFReasons(d)]

F_VF(d) ==
    [stars |-> StarsOf(VFScore(d)), label |-> LabelOf(VFScore(d)),
     reasons |-> slice8(VFReasons(d))]

(***************************************************************************)
(* The environment of one run of F_UI.                                     *)
(***************************************************************************)
\* What the user types, or what a pasted share code holds.
RawInputs ==
    { <<"a.com">>, <<"www.", "a.com">>, <<"http://", "a.com">>,
      <<"HTTPS://", "b.com", "?q">>, <<Blank, "a.com", Blank>>,
      <<>>, <<Blank>>, <<"a.com", Blank, "b.com">>, <<"http://", "?q">> }

\* Addresses dns.lookup may resolve with, in order.
IpPool == <<"ip1", "ip2", "ip3", "ip4">>
DnsResults == {SubSeq(IpPool, 1, n) : n \in 0..MaxIps}

\* Response statuses and final URLs fetch may answer with.
Statuses == {200, 399, 400, 403, 405}
FetchUrls == { <<"https://", "a.com">>, <<"https://", "www.", "a.com">>, <<"http://", "b.com", "?q">> }

\* The calls F_Data awaits, and the sub-lookups they belong to.
Calls == {"dns", "ipinfo", "ipwho", "http", "tls", "whois"}

VARIABLES
    pc,           \* where F_UI / F_Data stands
    IPINFO_TOKEN, \* whether the environment sets a token (src line 12)
    urlClick,     \* the argument of F_Data
    targetUrl, host, whoisDomain,
    ips, geo, http, tlsInfo, whoisData, errors,   \* the locals of F_Data
    outcome,      \* per call: "none", "pending", "resolved" or "rejected"
    calls,        \* per call: how many times it was made
    fetches,      \* the requests httpRequest has issued, in order
    responses,    \* the responses fetch has resolved with, in order
    geoArgs,      \* the provider calls made, in order: <<provider, address>>
    timer,        \* the 10 s timers of httpRequest and getTlsCert
    aborted,      \* the operations cancelled: fetch aborted, socket destroyed
    saved,        \* whether the report file was written
    thrown,       \* what F_Data rejected with, "" when nothing
    data,         \* what F_Data returned: <<>> or <<RawData>>
    vf,           \* the locals of F_VF when it returns: <<>> or <<[score, trace, reasons]>>
    verdict       \* what F_VF returned: <<>> or <<Verdict>>

scan ==
    <<pc, IPINFO_TOKEN, urlClick, targetUrl, host, whoisDomain, ips, geo, http, tlsInfo,
      whoisData, errors, outcome, calls, fetches, responses, geoArgs, timer, aborted, saved,
      thrown, data, vf, verdict>>

env == <<IPINFO_TOKEN>>
target == <<urlClick, targetUrl, host, whoisDomain>>
results == <<data, vf, verdict>>
hist == <<responses, geoArgs, timer, aborted>>

\* The calls that run under a 10 s timer (lines 128 and 159).
Timed == {"http", "tls"}

(***************************************************************************)
(* The browser extension: background.js (the service worker) and           *)
(* intercepter.js (the script of the UI page index.html).                  *)
(***************************************************************************)
MaxTabs == 2
MaxNow == 30000
MaxClicks == 2
Tabs == 1..MaxTabs

VARIABLES
    tabUrl,       \* per tab: the URL of the page it shows
    navigating,   \* per tab: the navigation about to start, <<>> when none
    session,      \* chrome.storage.session: per key <<>> or <<value>>
    bgOps,        \* the storage calls of the worker whose callback has not run, in order
    uiOps,        \* per tab: the storage calls of its UI page whose callback has not run
    messages,     \* runtime messages and responses in flight
    uiState,      \* per tab: the STATE object of its UI page
    uiPc,         \* per tab: where its UI page is
    now,          \* Date.now()
    clicks,       \* how often the user has navigated, reloaded or clicked Continue
    details,      \* the event the onBeforeNavigate listeners were last called with
    effects,      \* what the listeners did before they returned from that call
    attempted,    \* per tab: the URLs the user has tried to open in it
    pageBy,       \* per tab: who started the navigation that loaded its page
    consumedSince \* per tab: its UI page took a pending URL and none was stored since

ext ==
    <<tabUrl, navigating, session, bgOps, uiOps, messages, uiState, uiPc, now, clicks, details,
      effects, attempted, pageBy, consumedSince>>
extHist == <<attempted, pageBy, consumedSince>>

(***************************************************************************)
(* The UI page's analyzer (analyzer.js, runAnalysis of intercepter.js) and *)
(* the review database (websiteold.ts).                                    *)
(***************************************************************************)
VARIABLES
    window_analyzeUrl, \* whether analyzer.js has set window.analyzeUrl
    anPc,         \* where runAnalysis / analyzeUrl stands
    anUrl,        \* the argument of analyzeUrl, <<>> before the call
    anScore,      \* score of analyzeUrl
    anReasons,    \* reasons of analyzeUrl
    anHttp,       \* http of analyzeUrl: <<>> for null
    anFetched,    \* the methods of the fetches issued, in order
    anPromise,    \* the promise analyzeUrl returned: "none", "pending", "resolved", "rejected"
    anResult,     \* the value the promise resolved to, <<>> before
    statusText,   \* the text of the element statusText
    sites         \* WebsiteDatabase.sites: per URL <<>> or <<the RankedWebsite>>

analyzer ==
    <<window_analyzeUrl, anPc, anUrl, anScore, anReasons, anHttp, anFetched, anPromise, anResult,
      statusText>>
web == <<analyzer, sites>>

\* The URLs reviews are stored for.
DbUrls == {"a.com", "b.com"}

AnInit ==
    /\ anPc = "idle"
    /\ anUrl = <<>>
    /\ anScore = 0
    /\ anReasons = <<>>
    /\ anHttp = <<>>
    /\ anFetched = <<>>
    /\ anPromise = "none"
    /\ anResult = <<>>
    /\ statusText = ""
DbInit == sites = [u \in DbUrls |-> <<>>]
\* intercepter.js lines 13-16: index.html loads analyzer.js before intercepter.js.
WebInit ==
    /\ window_analyzeUrl = TRUE
    /\ AnInit
    /\ DbInit

vars == <<scan, ext, web>>

\* URLs, as the fields URL and the listeners read: url.startsWith(scheme), hostname,
\* pathname and the destination the search parameters carry.
Url(scheme, hostname, pathname, dest) ==
    [scheme |-> scheme, hostname |-> hostname, pathname |-> pathname, dest |-> dest]
NoParams == [url |-> <<>>, q |-> <<>>, uddg |-> <<>>]
SiteA == Url("https://", "a.com", "/", NoParams)
SiteB == Url("https://", "b.com", "/", NoParams)
GoogleResults == Url("https://", "www.google.com", "/search", NoParams)
BingResults == Url("https://", "www.bing.com", "/search", NoParams)
DdgResults == Url("https://", "duckduckgo.com", "/", NoParams)
GoogleClick == Url("https://", "www.google.com", "/url", [NoParams EXCEPT !.q = <<SiteA>>])
DdgClick == Url("https://", "duckduckgo.com", "/l/", [NoParams EXCEPT !.uddg = <<SiteB>>])
ChromeSettings == Url("chrome://", "settings", "/", NoParams)
AboutBlank == Url("about:", "blank", "", NoParams)
\* chrome.runtime.getURL("index.html")
uiUrl == Url("chrome-extension://", "id", "/index.html", NoParams)
UserUrls ==
    {SiteA, SiteB, GoogleResults, BingResults, DdgResults, GoogleClick, DdgClick, ChromeSettings}

\* The keys of chrome.storage.session: the fallback key belongs to no tab.
PENDING_PREFIX == "pendingUrl:"
PENDING_FALLBACK == <<"pendingUrl", 0>>
pendingKey(tabId) == <<PENDING_PREFIX, tabId>>
allowKey(tabId) == <<"allowUntil:", tabId>>
Keys == {PENDING_FALLBACK} \cup {pendingKey(t) : t \in Tabs} \cup {allowKey(t) : t \in Tabs}

\* A navigation event and who started it.
Nav(url, frameId, by) == [url |-> url, frameId |-> frameId, by |-> by]
\* What the user may start: a main-frame navigation to any of the URLs, or one in a
\* frame of the page.
UserNavs == {Nav(u, 0, "user") : u \in UserUrls} \cup {Nav(SiteA, 1, "user")}
NoEffects == [stored |-> {}, redirected |-> FALSE, allowed |-> FALSE]
NoState == [tabId |-> <<>>, site |-> <<>>]

ExtInit ==
    /\ tabUrl = [t \in Tabs |-> AboutBlank]
    /\ navigating = [t \in Tabs |-> <<>>]
    /\ session = [k \in Keys |-> <<>>]
    /\ bgOps = <<>>
    /\ uiOps = [t \in Tabs |-> <<>>]
    /\ messages = {}
    /\ uiState = [t \in Tabs |-> NoState]
    /\ uiPc = [t \in Tabs |-> "closed"]
    /\ now = 0
    /\ clicks = 0
    /\ details = <<>>
    /\ effects = NoEffects
    /\ attempted = [t \in Tabs |-> {}]
    /\ pageBy = [t \in Tabs |-> "browser"]
    /\ consumedSince = [t \in Tabs |-> FALSE]

ScanInit ==
    /\ pc = "F_Data"
    /\ urlClick = <<>>
    /\ targetUrl = <<>> /\ host = <<>> /\ whoisDomain = <<>>
    /\ ips = <<>> /\ geo = Absent /\ http = Absent /\ tlsInfo = Absent /\ whoisData = Absent
    /\ errors = <<>>
    /\ outcome = [c \in Calls |-> "none"]
    /\ calls = [c \in Calls |-> 0]
    /\ fetches = <<>>
    /\ responses = <<>>
    /\ geoArgs = <<>>
    /\ timer = [c \in Timed |-> "unset"]
    /\ aborted = {}
    /\ saved = FALSE
    /\ thrown = ""
    /\ data = Absent
    /\ vf = Absent
    /\ verdict = Absent

Init ==
    /\ IPINFO_TOKEN \in BOOLEAN
    /\ ScanInit
    /\ ExtInit
    /\ WebInit

\* A call is made: it is pending until it settles.
Started(c) == /\ outcome' = [outcome EXCEPT ![c] = "pending"]
              /\ calls' = [calls EXCEPT ![c] = @ + 1]
Settled(c, how) == /\ outcome' = [outcome EXCEPT ![c] = how]
                   /\ UNCHANGED calls
InFlight == {c \in Calls : outcome[c] = "pending"}

\* Mutant: the entry is put in front.
push_Front(es, tag, msg) == <<Line(tag, <<msg>>)>> \o es
push(es, tag, msg) == Append(es, Line(tag, <<msg>>))

(***************************************************************************)
(* F_Data, lines 250-356.                                                  *)
(***************************************************************************)
\* Lines 251-255: the target is resolved; new URL throws on a text it cannot parse.
FData_Target ==
    /\ pc = "F_Data"
    /\ \E raw \in RawInputs :
        /\ urlClick' = raw
        /\ IF UrlParses(normalizeUrl(raw))
           THEN /\ targetUrl' = normalizeUrl(raw)
                /\ host' = getHost(normalizeUrl(raw))
                /\ whoisDomain' = stripWww(getHost(normalizeUrl(raw)))
                /\ pc' = "dns"
                /\ UNCHANGED thrown
           ELSE /\ thrown' = "Invalid URL"
                /\ pc' = "rejected"
                /\ UNCHANGED <<targetUrl, host, whoisDomain>>
    /\ UNCHANGED <<env, ext, web, hist, ips, geo, http, tlsInfo, whoisData, errors, outcome, calls, fetches,
                   saved, results>>

\* Line 260: dns.lookup is called.
DnsStart ==
    /\ pc = "dns"
    /\ Started("dns")
    /\ pc' = "dns_wait"
    /\ UNCHANGED <<env, ext, web, hist, target, ips, geo, http, tlsInfo, whoisData, errors, fetches, saved,
                   thrown, results>>

\* Where F_Data goes once ips is known (lines 268-290), and what it pushes there.
\* Mutant: the fallback provider is asked first, token or not.
AfterDns_FallbackFirst(addrs) == IF Len(addrs) # 0 THEN "ipwho" ELSE "http"
AfterDns(addrs) ==
    IF Len(addrs) # 0 THEN (IF IPINFO_TOKEN THEN "ipinfo" ELSE "ipwho") ELSE "http"
NoIpErrors(es, addrs) ==
    IF Len(addrs) # 0 THEN es ELSE push(es, "No IP addresses resolved from DNS", "")

\* Lines 259-264 and the branch of lines 268-290: dns.lookup settles.
DnsComplete ==
    /\ pc = "dns_wait"
    /\ \/ \E addrs \in DnsResults :
            /\ Settled("dns", "resolved")
            /\ ips' = addrs
            /\ errors' = NoIpErrors(errors, addrs)
            /\ pc' = AfterDns(addrs)
       \/ \E msg \in {"getaddrinfo ENOTFOUND"} :
            /\ Settled("dns", "rejected")
            /\ ips' = ips
            /\ errors' = NoIpErrors(push(errors, "IP ERROR: ", msg), ips)
            /\ pc' = AfterDns(ips)
    /\ UNCHANGED <<env, ext, web, hist, target, geo, http, tlsInfo, whoisData, fetches, saved, thrown,
                   results>>

\* Line 273: ipInfoLookup(ips[0]) is called.
IpInfoStart ==
    /\ pc = "ipinfo"
    /\ Started("ipinfo")
    /\ geoArgs' = Append(geoArgs, <<"ipinfo", ips[1]>>)
    /\ pc' = "ipinfo_wait"
    /\ UNCHANGED <<env, ext, web, responses, timer, aborted, target, ips, geo, http, tlsInfo, whoisData,
                   errors, fetches, saved,
                   thrown, results>>

\* Lines 272-280: ipInfoLookup settles; the fallback runs when geo is still unset.
IpInfoComplete ==
    /\ pc = "ipinfo_wait"
    /\ \/ /\ Settled("ipinfo", "resolved")
          /\ geo' = Present([source |-> "ipinfo"])
          /\ pc' = "http"
          /\ UNCHANGED errors
       \/ \E msg \in {"IPinfo HTTP 401"} :
            /\ Settled("ipinfo", "rejected")
            /\ errors' = push(errors, "GEO ERROR (ipinfo): ", msg)
            /\ pc' = "ipwho"
            /\ UNCHANGED geo
    /\ UNCHANGED <<env, ext, web, hist, target, ips, http, tlsInfo, whoisData, fetches, saved, thrown,
                   results>>

\* Mutant: the fallback provider is asked about the last address.
IpWhoStart_LastIp ==
    /\ pc = "ipwho"
    /\ Started("ipwho")
    /\ geoArgs' = Append(geoArgs, <<"ipwho.is", ips[Len(ips)]>>)
    /\ pc' = "ipwho_wait"
    /\ UNCHANGED <<env, ext, web, responses, timer, aborted, target, ips, geo, http, tlsInfo, whoisData,
                   errors, fetches, saved, thrown, results>>
\* Line 282: ipGeoFallback(ips[0]) is called.
IpWhoStart ==
    /\ pc = "ipwho"
    /\ Started("ipwho")
    /\ geoArgs' = Append(geoArgs, <<"ipwho.is", ips[1]>>)
    /\ pc' = "ipwho_wait"
    /\ UNCHANGED <<env, ext, web, responses, timer, aborted, target, ips, geo, http, tlsInfo, whoisData,
                   errors, fetches, saved,
                   thrown, results>>

\* Lines 281-286: ipGeoFallback settles.
IpWhoComplete ==
    /\ pc = "ipwho_wait"
    /\ \/ /\ Settled("ipwho", "resolved")
          /\ geo' = Present([source |-> "ipwho.is"])
          /\ UNCHANGED errors
       \/ \E msg \in {"ipwho.is error: unknown"} :
            /\ Settled("ipwho", "rejected")
            /\ errors' = push(errors, "GEO ERROR (fallback): ", msg)
            /\ UNCHANGED geo
    /\ pc' = "http"
    /\ UNCHANGED <<env, ext, web, hist, target, ips, http, tlsInfo, whoisData, fetches, saved, thrown,
                   results>>

\* Lines 295 and 126-131: httpRequest is called and issues its HEAD request.
HttpStart ==
    /\ pc = "http"
    /\ Started("http")
    /\ timer' = [timer EXCEPT !["http"] = "armed"]
    /\ fetches' = <<"HEAD">>
    /\ pc' = "http_head"
    /\ UNCHANGED <<env, ext, web, responses, geoArgs, aborted, target, ips, geo, tlsInfo, whoisData,
                   http, errors, saved, thrown,
                   results>>

\* What a fetch rejects with: a transport error, or, when the 10 s timer fires and
\* calls controller.abort() (line 128), the AbortError of the signal.
AbortMessage == "This operation was aborted"
FetchErrors == {"fetch failed", AbortMessage}

\* The timer of httpRequest when a fetch rejects: it has fired when the rejection is
\* the abort, and is cleared by the finally block otherwise (line 143).
HttpTimerOnReject(msg) ==
    /\ timer' = [timer EXCEPT !["http"] = IF msg = AbortMessage THEN "fired" ELSE "cleared"]
    /\ aborted' = IF msg = AbortMessage THEN aborted \cup {"http"} ELSE aborted

\* Mutant: a failed probe gives up on the TLS inspection.
HttpRejected_SkipsTls(msg) ==
    /\ Settled("http", "rejected")
    /\ errors' = push(errors, "HTTP ERROR: ", msg)
    /\ pc' = "whois"
    /\ HttpTimerOnReject(msg)
    /\ UNCHANGED <<http, fetches, responses>>
\* Lines 294-298: httpRequest has rejected.
HttpRejected(msg) ==
    /\ Settled("http", "rejected")
    /\ errors' = push(errors, "HTTP ERROR: ", msg)
    /\ pc' = "tls"
    /\ HttpTimerOnReject(msg)
    /\ UNCHANGED <<http, fetches, responses>>
\* Lines 127 and 137-141: start is read before the first request and end after the
\* last response; with one unit of time per request, end - start is the number of
\* requests made.
\* Mutant: end is read before the request is made again.
Elapsed_FirstOnly(requests) == 1
Elapsed(requests) == Len(requests)
\* Lines 137-141 and 295: httpRequest has resolved.
HttpResolved(status, url) ==
    /\ Settled("http", "resolved")
    /\ responses' = Append(responses, [status |-> status, url |-> url])
    /\ http' = Present([status |-> status, timeSec |-> Elapsed(fetches), finalUrl |-> url])
    /\ timer' = [timer EXCEPT !["http"] = "cleared"]
    /\ pc' = "tls"
    /\ UNCHANGED <<errors, fetches, aborted>>

\* Lines 131-135: the HEAD request settles; 405 and 403 are asked again with GET.
HttpHead ==
    /\ pc = "http_head"
    /\ \/ \E status \in Statuses, url \in FetchUrls :
            IF status = 405 \/ status = 403
            THEN /\ responses' = Append(responses, [status |-> status, url |-> url])
                 /\ fetches' = Append(fetches, "GET")
                 /\ pc' = "http_get"
                 /\ UNCHANGED <<http, errors, outcome, calls, timer, aborted>>
            ELSE HttpResolved(status, url)
       \/ \E msg \in FetchErrors : HttpRejected(msg)
    /\ UNCHANGED <<env, ext, web, geoArgs, target, ips, geo, tlsInfo, whoisData, saved, thrown, results>>

\* Line 134: the GET request settles.
HttpGet ==
    /\ pc = "http_get"
    /\ \/ \E status \in Statuses, url \in FetchUrls : HttpResolved(status, url)
       \/ \E msg \in FetchErrors : HttpRejected(msg)
    /\ UNCHANGED <<env, ext, web, geoArgs, target, ips, geo, tlsInfo, whoisData, saved, thrown, results>>

\* Line 303: getTlsCert(host) is called.
TlsStart ==
    /\ pc = "tls"
    /\ Started("tls")
    /\ timer' = [timer EXCEPT !["tls"] = "armed"]
    /\ pc' = "tls_wait"
    /\ UNCHANGED <<env, ext, web, responses, geoArgs, aborted, target, ips, geo, http, tlsInfo,
                   whoisData, errors, fetches, saved,
                   thrown, results>>

\* What getTlsCert rejects with: the error of the "timeout" handler, which destroys
\* the socket first (lines 167-170), or a socket error (line 172).
TlsTimeoutMessage == "TLS timeout"
TlsErrors == {TlsTimeoutMessage, "connect ECONNREFUSED"}
\* Lines 302-313: getTlsCert settles.
TlsComplete ==
    /\ pc = "tls_wait"
    /\ \/ /\ Settled("tls", "resolved")
          /\ tlsInfo' = Present("cert")
          /\ UNCHANGED <<errors, timer, aborted>>
       \/ \E msg \in TlsErrors :
            /\ Settled("tls", "rejected")
            /\ errors' = push(errors, "SSL ERROR: ", msg)
            /\ timer' = [timer EXCEPT !["tls"] = IF msg = TlsTimeoutMessage THEN "fired" ELSE @]
            /\ aborted' = IF msg = TlsTimeoutMessage THEN aborted \cup {"tls"} ELSE aborted
            /\ UNCHANGED tlsInfo
    /\ pc' = "whois"
    /\ UNCHANGED <<env, ext, web, responses, geoArgs, target, ips, geo, http, whoisData, fetches, saved,
                   thrown, results>>

\* Line 318: whois(whoisDomain) is called.
WhoisStart ==
    /\ pc = "whois"
    /\ Started("whois")
    /\ pc' = "whois_wait"
    /\ UNCHANGED <<env, ext, web, hist, target, ips, geo, http, tlsInfo, whoisData, errors, fetches, saved,
                   thrown, results>>

\* Lines 317-321: whois settles.
WhoisComplete ==
    /\ pc = "whois_wait"
    /\ \/ /\ Settled("whois", "resolved")
          /\ whoisData' = Present("record")
          /\ UNCHANGED errors
       \/ \E msg \in {"whois failed"} :
            /\ Settled("whois", "rejected")
            /\ errors' = push(errors, "WHOIS ERROR: ", msg)
            /\ UNCHANGED whoisData
    /\ pc' = "save"
    /\ UNCHANGED <<env, ext, web, hist, target, ips, geo, http, tlsInfo, fetches, saved, thrown, results>>

\* The record F_Data returns (lines 344-355).
RawData ==
    [targetUrl |-> targetUrl, host |-> host, whoisDomain |-> whoisDomain, ips |-> ips,
     geo |-> geo, http |-> http, tls |-> tlsInfo, whois |-> whoisData, errors |-> errors,
     savedFilePath |-> <<"output/rawdata-">> \o whoisDomain \o <<".txt">>]

\* Lines 323-355: the report is written, then the record is returned; fs.mkdir and
\* fs.writeFile are awaited outside any try, so their rejection is F_Data's.
Save ==
    /\ pc = "save"
    /\ \/ /\ saved' = TRUE
          /\ data' = Present(RawData)
          /\ pc' = "returned"
          /\ UNCHANGED thrown
       \/ \E msg \in {"EACCES: permission denied"} :
            /\ thrown' = msg
            /\ pc' = "rejected"
            /\ UNCHANGED <<saved, data>>
    /\ UNCHANGED <<env, ext, web, hist, target, ips, geo, http, tlsInfo, whoisData, errors, outcome, calls,
                   fetches, vf, verdict>>

\* F_UI, lines 478-482: the returned record is graded.
UI_Score ==
    /\ pc = "returned"
    /\ vf' = Present(VFLocals(ValueOf(data)))
    /\ verdict' = Present(F_VF(ValueOf(data)))
    /\ pc' = "done"
    /\ UNCHANGED <<env, ext, web, hist, target, ips, geo, http, tlsInfo, whoisData, errors, outcome, calls,
                   fetches, saved, thrown, data>>

Next ==
    \/ FData_Target
    \/ DnsStart \/ DnsComplete
    \/ IpInfoStart \/ IpInfoComplete
    \/ IpWhoStart \/ IpWhoComplete
    \/ HttpStart \/ HttpHead \/ HttpGet
    \/ TlsStart \/ TlsComplete
    \/ WhoisStart \/ WhoisComplete
    \/ Save
    \/ UI_Score

Spec == Init /\ [][Next]_vars

(***************************************************************************)
(* F_VF on its own: the scorer applied to every record of the RawData type *)
(* within the bounds, built the way F_Data builds one (host and            *)
(* whoisDomain come from targetUrl) but with any outcome in its fields.    *)
(***************************************************************************)
VFTargets == {normalizeUrl(raw) : raw \in {r \in RawInputs : UrlParses(normalizeUrl(r))}}
VFFinalUrls ==
    FetchUrls \cup { <<>>, <<"a.com">>, <<"https://", Blank, "a.com">>, <<"https://", "b.com">>,
                     <<"https://", "www.", "www.", "a.com">> }
VFHttp == {Absent} \cup {Present([status |-> st, timeSec |-> 1, finalUrl |-> u]) : st \in Statuses, u \in VFFinalUrls}
VFErrors == {[i \in 1..n |-> Line("HTTP ERROR: ", <<"fetch failed">>)] : n \in 0..MaxErrors}
VFInputs ==
    { [targetUrl |-> t, host |-> getHost(t), whoisDomain |-> stripWww(getHost(t)),
       ips |-> a, geo |-> Absent, http |-> h, tls |-> c, whois |-> w, errors |-> es,
       savedFilePath |-> <<"output/rawdata-">> \o stripWww(getHost(t)) \o <<".txt">>] :
         t \in VFTargets, a \in {SubSeq(IpPool, 1, MaxIps)}, h \in VFHttp,
         c \in {Absent, Present("cert")}, w \in {Absent, Present("record")}, es \in VFErrors }

InitVF ==
    /\ ExtInit
    /\ WebInit
    /\ pc = "returned"
    /\ IPINFO_TOKEN = FALSE
    /\ \E d \in VFInputs :
        /\ data = Present(d)
        /\ urlClick = d.targetUrl
        /\ targetUrl = d.targetUrl /\ host = d.host /\ whoisDomain = d.whoisDomain
        /\ ips = d.ips /\ geo = d.geo /\ http = d.http /\ tlsInfo = d.tls
        /\ whoisData = d.whois /\ errors = d.errors
    /\ outcome = [c \in Calls |-> "none"]
    /\ calls = [c \in Calls |-> 0]
    /\ fetches = <<>>
    /\ responses = <<>>
    /\ geoArgs = <<>>
    /\ timer = [c \in Timed |-> "unset"]
    /\ aborted = {}
    /\ saved = TRUE
    /\ thrown = ""
    /\ vf = Absent
    /\ verdict = Absent

NextVF == UI_Score

SpecVF == InitVF /\ [][NextVF]_vars

(***************************************************************************)
(* Properties of F_Data.                                                   *)
(***************************************************************************)
SubLookups == {"dns", "geo", "http", "tls", "whois"}
Independent == {"http", "tls", "whois"}
HasSettled(c) == outcome[c] \in {"resolved", "rejected"}

\* How a sub-lookup ended.  DNS fails when the resolver raises an error or resolves
\* no address; geolocation succeeds when one provider answers and fails when it
\* was tried and no provider answered.
SubSuccess(l) ==
    CASE l = "dns" -> outcome["dns"] = "resolved" /\ ips # <<>>
      [] l = "geo" -> outcome["ipinfo"] = "resolved" \/ outcome["ipwho"] = "resolved"
      [] OTHER -> outcome[l] = "resolved"
SubFailure(l) ==
    CASE l = "dns" -> outcome["dns"] = "rejected" \/ (outcome["dns"] = "resolved" /\ ips = <<>>)
      [] l = "geo" -> /\ calls["ipinfo"] + calls["ipwho"] > 0
                      /\ outcome["ipinfo"] # "resolved" /\ outcome["ipwho"] # "resolved"
      [] OTHER -> outcome[l] = "rejected"
FieldOf(d, l) ==
    CASE l = "geo" -> d.geo [] l = "http" -> d.http [] l = "tls" -> d.tls [] l = "whois" -> d.whois
ErrorTexts(l) ==
    CASE l = "dns" -> {"IP ERROR: ", "No IP addresses resolved from DNS"}
      [] l = "geo" -> {"GEO ERROR (ipinfo): ", "GEO ERROR (fallback): "}
      [] l = "http" -> {"HTTP ERROR: "}
      [] l = "tls" -> {"SSL ERROR: "}
      [] l = "whois" -> {"WHOIS ERROR: "}
EntriesOf(es, l) == {i \in DOMAIN es : es[i][1] \in ErrorTexts(l)}

\* C1: F_Data rejects only when the target does not parse: for a target that
\* parses it returns a record, whatever the sub-lookups and the rest did.
C1_OnlyInvalidTargetFails ==
    pc = "rejected" => ~UrlParses(normalizeUrl(urlClick))

\* C2: in the returned record, errors has as many entries as sub-lookups failed.
C2_ErrorsCountFailures ==
    IsPresent(data) =>
        Len(ValueOf(data).errors) = Cardinality({l \in SubLookups : SubFailure(l)})

\* Geolocation is skipped when there is no address to look up.
Skipped(l) == l = "geo" /\ calls["ipinfo"] + calls["ipwho"] = 0
\* C3: each of geo, http, tls, whois is absent exactly when its sub-lookup failed
\* (or, for geo, was skipped for want of an address);
\* a sub-lookup that succeeded has its field set and no entry of its own in errors.
C3_FieldAbsentIffFailure ==
    IsPresent(data) =>
        \A l \in {"geo", "http", "tls", "whois"} :
            /\ ~IsPresent(FieldOf(ValueOf(data), l)) <=> (SubFailure(l) \/ Skipped(l))
            /\ SubSuccess(l) =>
                /\ IsPresent(FieldOf(ValueOf(data), l))
                /\ EntriesOf(ValueOf(data).errors, l) = {}

\* C4: when DNS yields no address, geolocation is not tried and the DNS/geolocation
\* stage accounts for exactly one entry of errors.
C4_NoIpsOneEntry ==
    (IsPresent(data) /\ ValueOf(data).ips = <<>>) =>
        /\ calls["ipinfo"] = 0 /\ calls["ipwho"] = 0
        /\ Len(ValueOf(data).errors)
             = 1 + Cardinality({l \in Independent : SubFailure(l)})

\* C5: DNS, the HTTP probe, the TLS inspection and the WHOIS query are never called
\* twice, and once the target is resolved and F_Data has got past its lookups each
\* of them has been called once and has settled, whatever the outcomes were.
PastLookups == pc \in {"save", "returned", "done"} \/ (pc = "rejected" /\ thrown # "Invalid URL")
C5_EachLookupOnce ==
    /\ \A c \in {"dns", "http", "tls", "whois"} : calls[c] <= 1
    /\ PastLookups => \A c \in {"dns", "http", "tls", "whois"} : calls[c] = 1 /\ HasSettled(c)
\* DNS, the probe and the inspection all failed, the probe by its timer, and the
\* WHOIS query was still made.
C5_Witness ==
    /\ pc = "done"
    /\ outcome["dns"] = "rejected" /\ outcome["http"] = "rejected" /\ outcome["tls"] = "rejected"
    /\ \E i \in DOMAIN errors : errors[i] = Line("HTTP ERROR: ", <<"This operation was aborted">>)
    /\ calls["whois"] = 1 /\ outcome["whois"] = "resolved"

\* C6: the HTTP probe, the TLS inspection and the WHOIS query do not wait for one
\* another: none of them has settled while another has yet to be started; and all
\* three have settled when the record is built.
C6_IndependentLookupsOverlap ==
    /\ \A a \in Independent, b \in Independent : HasSettled(a) => outcome[b] # "none"
    /\ IsPresent(data) => \A a \in Independent : HasSettled(a)

(***************************************************************************)
(* Properties of F_VF.                                                     *)
(***************************************************************************)
Scored == IsPresent(vf) /\ IsPresent(verdict)
HttpOf(d) == ValueOf(d.http)

\* The rule table of the scorer, weight by weight.
SchemeWeight(d) == IF d.targetUrl = <<>> \/ LowerAtom(d.targetUrl[1]) # "https://" THEN 3 ELSE 0
StatusWeight(d) == IF ~IsPresent(d.http) \/ HttpOf(d).status >= 400 THEN 2 ELSE 0
HostsDiffer(d) == stripWww(getHost(HttpOf(d).finalUrl)) # stripWww(d.host)
\* The redirect weight as the rule table states it: every final URL that does not
\* parse weighs 1.
RedirectWeightStated(d) ==
    IF ~IsPresent(d.http) THEN 0
    ELSE IF ~UrlParses(HttpOf(d).finalUrl) THEN 1
    ELSE IF HostsDiffer(d) THEN 2 ELSE 0
\* The redirect weight with the empty final URL set apart: it weighs nothing.
RedirectWeight(d) ==
    IF ~IsPresent(d.http) \/ HttpOf(d).finalUrl = <<>> THEN 0
    ELSE IF ~UrlParses(HttpOf(d).finalUrl) THEN 1
    ELSE IF HostsDiffer(d) THEN 2 ELSE 0
TlsWeight(d) == IF ~IsPresent(d.tls) THEN 3 ELSE 0
WhoisWeight(d) == IF ~IsPresent(d.whois) THEN 1 ELSE 0
ErrorsWeight(d) == IF d.errors # <<>> THEN 1 ELSE 0
OtherWeights(d) == SchemeWeight(d) + StatusWeight(d) + TlsWeight(d) + WhoisWeight(d) + ErrorsWeight(d)

AllPositive(d) ==
    /\ SchemeWeight(d) = 0 /\ IsPresent(d.http) /\ HttpOf(d).status < 400
    /\ UrlParses(HttpOf(d).finalUrl) /\ ~HostsDiffer(d)
    /\ IsPresent(d.tls) /\ IsPresent(d.whois) /\ d.errors = <<>>
AllFailedHttpScheme(d) ==
    /\ SchemeWeight(d) = 3 /\ ~IsPresent(d.http) /\ ~IsPresent(d.tls) /\ ~IsPresent(d.whois)
    /\ d.errors # <<>>
Scenarios(d) ==
    /\ AllPositive(d) =>
        /\ ValueOf(vf).score = 0
        /\ ValueOf(verdict).stars = 5 /\ ValueOf(verdict).label = "SAFE"
    /\ AllFailedHttpScheme(d) =>
        /\ ValueOf(vf).score = 10
        /\ ValueOf(verdict).stars = 1 /\ ValueOf(verdict).label = "RISKY"

\* C7 as stated: the score is the sum of the weights of the rule table, a final URL
\* that does not parse weighing 1; all-positive evidence scores 0 (5 stars, SAFE),
\* the all-failed http case 10 (1 star, RISKY).
C7_ScoreIsRuleTableSum ==
    Scored =>
        /\ ValueOf(vf).score = OtherWeights(ValueOf(data)) + RedirectWeightStated(ValueOf(data))
        /\ Scenarios(ValueOf(data))
\* C7 as amended: the same sum, where the redirect condition weighs 2 on a host
\* mismatch, 1 on a non-empty final URL that does not parse, and 0 otherwise, an
\* empty final URL included.
C7_ScoreIsRuleTableSumAmended ==
    Scored =>
        /\ ValueOf(vf).score = OtherWeights(ValueOf(data)) + RedirectWeight(ValueOf(data))
        /\ Scenarios(ValueOf(data))
\* A record with every penalty but the redirect one, its final URL being empty.
C7_Witness ==
    /\ Scored
    /\ IsPresent(ValueOf(data).http) /\ HttpOf(ValueOf(data)).finalUrl = <<>>
    /\ HttpOf(ValueOf(data)).status >= 400
    /\ SchemeWeight(ValueOf(data)) = 3 /\ ~IsPresent(ValueOf(data).tls)
    /\ ~IsPresent(ValueOf(data).whois) /\ ValueOf(data).errors # <<>>
    /\ ValueOf(vf).score = 10

\* C8: the stars and the label are those of the threshold table, at every score.
C8_ThresholdTable ==
    Scored =>
        LET sc == ValueOf(vf).score
            v == ValueOf(verdict)
        IN  /\ sc >= 0
            /\ v.stars \in 1..5
            /\ sc \in 0..1 => v.stars = 5 /\ v.label = "SAFE"
            /\ sc \in 2..3 => v.stars = 4 /\ v.label = "SAFE"
            /\ sc \in 4..5 => v.stars = 3 /\ v.label = "CAUTION"
            /\ sc \in 6..7 => v.stars = 2 /\ v.label = "RISKY"
            /\ sc >= 8 => v.stars = 1 /\ v.label = "RISKY"
\* A score on the upper edge of its row: 7 gives 2 stars, RISKY.
C8_Witness ==
    /\ Scored
    /\ ValueOf(vf).score = 7 /\ ValueOf(verdict).stars = 2 /\ ValueOf(verdict).label = "RISKY"

\* The texts each condition may append, in the order of the conditions.
ConditionTexts ==
    << {"Not using HTTPS", "Uses HTTPS"},
       {"HTTP error status: ", "HTTP status OK: ", "HTTP request failed"},
       {"Redirected to different host: ", "Could not parse final redirect URL"},
       {"No TLS certificate info", "TLS certificate present"},
       {"WHOIS lookup missing or failed", "WHOIS data found"},
       {"Errors encountered: "} >>
ReasonsOfCondition(rs, c) == {i \in DOMAIN rs : rs[i][1] \in ConditionTexts[c]}
InConditionOrder(rs) ==
    \A i \in DOMAIN rs, j \in DOMAIN rs, c \in 1..6, e \in 1..6 :
        (i < j /\ rs[i][1] \in ConditionTexts[c] /\ rs[j][1] \in ConditionTexts[e]) => c < e
Added(c) == ValueOf(vf).trace[c] - (IF c = 1 THEN 0 ELSE ValueOf(vf).trace[c - 1])

\* C9 as stated: before truncation the reasons hold exactly one entry per condition,
\* in the order scheme, HTTP status, redirect, TLS, WHOIS, errors.
C9_OneReasonPerCondition ==
    Scored =>
        /\ Len(ValueOf(vf).reasons) = 6
        /\ \A c \in 1..6 : ValueOf(vf).reasons[c][1] \in ConditionTexts[c]
\* C9 as amended: the scheme, HTTP status, TLS and WHOIS conditions each append
\* exactly one reason; the redirect condition and the errors condition append one
\* reason when they add to the score and none when they do not; the reasons are in
\* the order of the conditions.
C9_OneReasonPerConditionAmended ==
    Scored =>
        /\ \A c \in {1, 2, 4, 5} : Cardinality(ReasonsOfCondition(ValueOf(vf).reasons, c)) = 1
        /\ \A c \in {3, 6} :
            Cardinality(ReasonsOfCondition(ValueOf(vf).reasons, c)) = (IF Added(c) > 0 THEN 1 ELSE 0)
        /\ \A i \in DOMAIN ValueOf(vf).reasons : \E c \in 1..6 : ValueOf(vf).reasons[i][1] \in ConditionTexts[c]
        /\ InConditionOrder(ValueOf(vf).reasons)
\* The probe answered, the final host is the target's, there are no errors: four
\* reasons only.
C9_Witness ==
    /\ Scored
    /\ IsPresent(ValueOf(data).http) /\ UrlParses(HttpOf(ValueOf(data)).finalUrl)
    /\ ValueOf(data).errors = <<>>
    /\ Len(ValueOf(vf).reasons) = 4

CouldNotParse == Line("Could not parse final redirect URL", <<>>)
HasReason(rs, r) == \E i \in DOMAIN rs : rs[i] = r

\* C10 as stated: with http present and a final URL that does not parse, the empty
\* one included, the redirect condition adds exactly 1 and records the
\* could-not-parse reason.
C10_UnparseableAddsOne ==
    (Scored /\ IsPresent(ValueOf(data).http) /\ ~UrlParses(HttpOf(ValueOf(data)).finalUrl)) =>
        /\ Added(3) = 1
        /\ HasReason(ValueOf(verdict).reasons, CouldNotParse)
\* C10 as amended: with http present and a non-empty final URL that does not parse,
\* the redirect condition adds exactly 1 and records the could-not-parse reason;
\* with an empty final URL it adds nothing and records no reason.
C10_UnparseableAddsOneAmended ==
    (Scored /\ IsPresent(ValueOf(data).http) /\ ~UrlParses(HttpOf(ValueOf(data)).finalUrl)) =>
        IF HttpOf(ValueOf(data)).finalUrl # <<>>
        THEN /\ Added(3) = 1
             /\ HasReason(ValueOf(verdict).reasons, CouldNotParse)
        ELSE /\ Added(3) = 0
             /\ ReasonsOfCondition(ValueOf(verdict).reasons, 3) = {}
\* A final URL with a blank in its host has been scored.
C10_Witness ==
    /\ Scored
    /\ IsPresent(ValueOf(data).http)
    /\ HttpOf(ValueOf(data)).finalUrl = <<"https://", Blank, "a.com">>
    /\ Added(3) = 1

(***************************************************************************)
(* F_VF applied again to a record that differs from the one just graded in *)
(* one condition, turned from its positive to its negative state.          *)
(***************************************************************************)
Rescore(d) ==
    /\ pc = "done"
    /\ data' = Present(d)
    /\ vf' = Present(VFLocals(d))
    /\ verdict' = Present(F_VF(d))
    /\ UNCHANGED <<pc, env, ext, web, hist, target, ips, geo, http, tlsInfo, whoisData, errors, outcome,
                   calls, fetches, saved, thrown>>

Graded == ValueOf(data)
WithHttp(d, h) == [d EXCEPT !.http = Present(h)]

Worsen_Scheme ==
    /\ IsPresent(data) /\ isHttps(Graded)
    /\ Rescore([Graded EXCEPT !.targetUrl = <<"http://">> \o Tail(Graded.targetUrl)])
Worsen_HttpAbsent ==
    /\ IsPresent(data) /\ IsPresent(Graded.http)
    /\ Rescore([Graded EXCEPT !.http = Absent])
Worsen_Status ==
    /\ IsPresent(data) /\ IsPresent(Graded.http) /\ ValueOf(Graded.http).status < 400
    /\ \E st \in {x \in Statuses : x >= 400} :
        Rescore(WithHttp(Graded, [ValueOf(Graded.http) EXCEPT !.status = st]))
Worsen_FinalHost ==
    /\ IsPresent(data) /\ IsPresent(Graded.http)
    /\ UrlParses(ValueOf(Graded.http).finalUrl)
    /\ stripWww(getHost(ValueOf(Graded.http).finalUrl)) = stripWww(Graded.host)
    /\ \E u \in {x \in VFFinalUrls : UrlParses(x) /\ stripWww(getHost(x)) # stripWww(Graded.host)} :
        Rescore(WithHttp(Graded, [ValueOf(Graded.http) EXCEPT !.finalUrl = u]))
Worsen_Tls ==
    /\ IsPresent(data) /\ IsPresent(Graded.tls)
    /\ Rescore([Graded EXCEPT !.tls = Absent])
Worsen_Whois ==
    /\ IsPresent(data) /\ IsPresent(Graded.whois)
    /\ Rescore([Graded EXCEPT !.whois = Absent])
Worsen_Errors ==
    /\ IsPresent(data) /\ Graded.errors = <<>>
    /\ Rescore([Graded EXCEPT !.errors = <<Line("HTTP ERROR: ", <<"fetch failed">>)>>])

NextMono ==
    \/ UI_Score
    \/ Worsen_Scheme \/ Worsen_HttpAbsent \/ Worsen_Status \/ Worsen_FinalHost
    \/ Worsen_Tls \/ Worsen_Whois \/ Worsen_Errors

SpecMono == InitVF /\ [][NextMono]_vars

(***************************************************************************)
(* More properties of F_VF.                                                *)
(***************************************************************************)
\* A host with one leading "www." label removed.
WwwStripped(h) == IF h # <<>> /\ h[1] = "www." THEN Tail(h) ELSE h
\* Two hosts that differ only by a leading "www.".
DifferByWww(a, b) == a = <<"www.">> \o b \/ b = <<"www.">> \o a
FinalHost(d) == getHost(HttpOf(d).finalUrl)
Mismatch(d) == Line("Redirected to different host: ", FinalHost(d))
Occurrences(rs, r) == Cardinality({i \in DOMAIN rs : rs[i] = r})
RedirectExclusive(d) ==
    /\ Added(3) \in {0, 1, 2}
    /\ Cardinality(ReasonsOfCondition(ValueOf(vf).reasons, 3)) <= 1
    /\ (IsPresent(d.http) /\ UrlParses(HttpOf(d).finalUrl)
          /\ WwwStripped(FinalHost(d)) # WwwStripped(d.host)) =>
        /\ Added(3) = 2
        /\ Occurrences(ValueOf(verdict).reasons, Mismatch(d)) = 1
        /\ ~HasReason(ValueOf(verdict).reasons, CouldNotParse)

\* C11 as stated: the redirect condition adds 0, 1 or 2, never both penalties; a
\* final host that differs from the target's once "www." is stripped gets the
\* mismatch reason and +2 once; hosts that differ only by a leading "www." are not
\* a mismatch.
C11_RedirectExclusive ==
    Scored =>
        /\ RedirectExclusive(ValueOf(data))
        /\ (IsPresent(ValueOf(data).http) /\ UrlParses(HttpOf(ValueOf(data)).finalUrl)
              /\ DifferByWww(FinalHost(ValueOf(data)), ValueOf(data).host)) =>
            /\ Added(3) = 0
            /\ ReasonsOfCondition(ValueOf(vf).reasons, 3) = {}
\* C11 as amended: the same, except that hosts that differ only by a leading "www."
\* are not a mismatch when the shorter one does not itself begin with "www."
\* (a.com and www.a.com); only one leading "www." is stripped, so www.a.com and
\* www.www.a.com are a mismatch.
C11_RedirectExclusiveAmended ==
    Scored =>
        /\ RedirectExclusive(ValueOf(data))
        /\ (IsPresent(ValueOf(data).http) /\ UrlParses(HttpOf(ValueOf(data)).finalUrl)
              /\ DifferByWww(FinalHost(ValueOf(data)), ValueOf(data).host)) =>
            IF WwwStripped(FinalHost(ValueOf(data))) = WwwStripped(ValueOf(data).host)
            THEN /\ Added(3) = 0
                 /\ ReasonsOfCondition(ValueOf(vf).reasons, 3) = {}
            ELSE /\ Added(3) = 2
                 /\ Occurrences(ValueOf(verdict).reasons, Mismatch(ValueOf(data))) = 1
\* The target is a.com and the final URL is on www.a.com: no penalty.
C11_Witness ==
    /\ Scored
    /\ ValueOf(data).host = <<"a.com">>
    /\ IsPresent(ValueOf(data).http)
    /\ HttpOf(ValueOf(data)).finalUrl = <<"https://", "www.", "a.com">>
    /\ Added(3) = 0

\* C12: a step that turns one condition of the graded record from its positive to
\* its negative state, the others staying as they are, never lowers the score and
\* never raises the number of stars.
C12_MonotoneScore ==
    [][(Scored /\ Scored') =>
          /\ ValueOf(vf').score >= ValueOf(vf).score
          /\ ValueOf(verdict').stars <= ValueOf(verdict).stars]_vars

\* C20: the verdict holds at most 8 reasons, the first ones the scorer produced, in
\* the order it produced them.
C20_ReasonsTruncated ==
    Scored =>
        LET all == ValueOf(vf).reasons
            kept == ValueOf(verdict).reasons
        IN  /\ Len(kept) <= 8
            /\ Len(kept) = (IF Len(all) <= 8 THEN Len(all) ELSE 8)
            /\ \A i \in DOMAIN kept : kept[i] = all[i]
\* Every condition has added its penalty: six reasons, all kept.
C20_Witness ==
    /\ Scored
    /\ \A c \in 1..6 : Added(c) > 0
    /\ Len(ValueOf(verdict).reasons) = 6

(***************************************************************************)
(* More properties of F_Data.                                              *)
(***************************************************************************)
Providers == {"ipinfo", "ipwho"}
ProviderName(c) == IF c = "ipinfo" THEN "ipinfo" ELSE "ipwho.is"
\* F_Data is past the geolocation section.
GeoDecided == HasSettled("dns") /\ pc \notin {"ipinfo", "ipinfo_wait", "ipwho", "ipwho_wait"}

\* C14: the primary provider is asked, and asked first, exactly when a token is
\* configured; the fallback is asked exactly when the primary was not asked or
\* failed; no provider is asked twice; a primary that answered leaves the fallback
\* unasked; geo.source names the provider that answered.
C14_ProviderFallback ==
    /\ \A c \in Providers : calls[c] <= 1
    /\ Len(geoArgs) = calls["ipinfo"] + calls["ipwho"]
    /\ calls["ipinfo"] > 0 => IPINFO_TOKEN /\ geoArgs[1][1] = "ipinfo"
    /\ calls["ipwho"] > 0 => calls["ipinfo"] = 0 \/ outcome["ipinfo"] = "rejected"
    /\ outcome["ipinfo"] = "resolved" => calls["ipwho"] = 0
    /\ (GeoDecided /\ ips # <<>>) =>
        /\ calls["ipinfo"] = 1 <=> IPINFO_TOKEN
        /\ calls["ipwho"] = 1 <=> (calls["ipinfo"] = 0 \/ outcome["ipinfo"] = "rejected")
    /\ IsPresent(geo) <=> \E c \in Providers : outcome[c] = "resolved"
    /\ \A c \in Providers : outcome[c] = "resolved" => ValueOf(geo).source = ProviderName(c)
\* The primary was asked and failed, the fallback answered.
C14_Witness ==
    /\ GeoDecided
    /\ IPINFO_TOKEN
    /\ outcome["ipinfo"] = "rejected" /\ outcome["ipwho"] = "resolved"
    /\ Len(geoArgs) = 2 /\ geoArgs[1][1] = "ipinfo" /\ geoArgs[2][1] = "ipwho.is"
    /\ ValueOf(geo).source = "ipwho.is"

\* C15: no provider is asked before dns.lookup has settled; a provider is asked
\* exactly when the address list is not empty; every provider is asked about the
\* first address.
C15_DnsBeforeGeo ==
    /\ geoArgs # <<>> => HasSettled("dns")
    /\ GeoDecided => (geoArgs # <<>> <=> ips # <<>>)
    /\ \A i \in DOMAIN geoArgs : geoArgs[i][2] = ips[1]
\* Two addresses were resolved and both providers were asked.
C15_Witness ==
    /\ GeoDecided
    /\ Len(ips) >= 2
    /\ Len(geoArgs) = 2

\* The place of an entry in the order the lookups are attempted.
StageOf(e) ==
    CASE e[1] = "IP ERROR: " -> 1
      [] e[1] = "GEO ERROR (ipinfo): " -> 2
      [] e[1] = "GEO ERROR (fallback): " -> 3
      [] e[1] = "No IP addresses resolved from DNS" -> 3
      [] e[1] = "HTTP ERROR: " -> 4
      [] e[1] = "SSL ERROR: " -> 5
      [] e[1] = "WHOIS ERROR: " -> 6
InAttemptOrder(es) ==
    \A i \in DOMAIN es, j \in DOMAIN es : i < j => StageOf(es[i]) < StageOf(es[j])
IsPrefix(s, t) == Len(s) <= Len(t) /\ SubSeq(t, 1, Len(s)) = s

\* C16: every step leaves the entries of errors in place and adds new ones at the
\* end only, and the entries are in the order DNS, geolocation, HTTP, TLS, WHOIS.
C16_ErrorsAppendOnly ==
    [][IsPrefix(errors, errors') /\ InAttemptOrder(errors')]_vars
\* Both providers, the probe, the inspection and the WHOIS query failed.
C16_Witness ==
    /\ PastLookups
    /\ Len(errors) = 5
    /\ EntriesOf(errors, "geo") = {1, 2}
    /\ EntriesOf(errors, "whois") = {5}

\* An input with no host in it, or with a blank inside its host.
Malformed(raw) ==
    \/ \A i \in DOMAIN raw : raw[i] \notin HostAtoms
    \/ \E i \in DOMAIN raw, j \in DOMAIN raw, k \in DOMAIN raw :
        i < j /\ j < k /\ raw[i] \in HostAtoms /\ raw[j] = Blank /\ raw[k] \in HostAtoms

\* C17: for a malformed input F_Data rejects at the target: no call of dns.lookup,
\* of a provider, of httpRequest, getTlsCert or whois is made, no record is returned
\* and no report is written.
C17_MalformedStopsEarly ==
    (pc # "F_Data" /\ Malformed(urlClick)) =>
        /\ pc = "rejected" /\ thrown = "Invalid URL"
        /\ \A c \in Calls : calls[c] = 0 /\ outcome[c] = "none"
        /\ geoArgs = <<>> /\ fetches = <<>>
        /\ data = Absent /\ verdict = Absent
        /\ ~saved
\* The input with a blank inside its host was rejected.
C17_Witness ==
    /\ pc = "rejected"
    /\ urlClick = <<"a.com", Blank, "b.com">>
    /\ thrown = "Invalid URL"

\* The texts that report a timeout.
TimeoutTexts == {"timeout", "TLS timeout"}
TimedField(c) == IF c = "http" THEN http ELSE tlsInfo
StillIn(c) == IF c = "http" THEN pc \in {"http_head", "http_get"} ELSE pc = "tls_wait"
\* C18: when the 10 s timer of the probe or of the inspection fires, the operation
\* is cancelled, the call has failed, its entry in errors gives a timeout as the
\* reason, its field is absent and F_Data goes on to the next lookup.
C18_TimeoutReported ==
    \A c \in Timed :
        timer[c] = "fired" =>
            /\ c \in aborted
            /\ outcome[c] = "rejected"
            /\ TimedField(c) = Absent
            /\ \E i \in EntriesOf(errors, c) : errors[i][2][1] \in TimeoutTexts
            /\ ~StillIn(c)
            /\ PastLookups => calls["tls"] = 1 /\ calls["whois"] = 1

\* C19: the probe asks with HEAD first, asks again with GET exactly when the first
\* answer is 405 or 403, never asks a third time, and reports the status and the
\* URL of the last answer and the time of the whole exchange.
C19_HeadThenGet ==
    /\ fetches # <<>> => fetches[1] = "HEAD"
    /\ Len(fetches) <= 2
    /\ Len(fetches) = 2 => fetches[2] = "GET"
    /\ Len(fetches) = 2 <=> (responses # <<>> /\ responses[1].status \in {405, 403})
    /\ IsPresent(http) =>
        /\ Len(responses) = Len(fetches)
        /\ ValueOf(http).status = responses[Len(responses)].status
        /\ ValueOf(http).finalUrl = responses[Len(responses)].url
        /\ ValueOf(http).timeSec = Len(fetches)
\* HEAD was answered 405 and the GET that followed 200.
C19_Witness ==
    /\ IsPresent(http)
    /\ fetches = <<"HEAD", "GET">>
    /\ responses[1].status = 405
    /\ ValueOf(http).status = 200
    /\ ValueOf(http).timeSec = 2

(***************************************************************************)
(* The extension at work.  The calls of chrome.storage.session take effect *)
(* in the order they are made; the callback of a call runs later, the      *)
(* callbacks of one page in the order of their calls.                      *)
(***************************************************************************)
SetOp(key, value, then, tabId) ==
    [op |-> "set", key |-> key, value |-> <<value>>, then |-> then, tabId |-> tabId, url |-> <<>>]
\* A get is answered with what the key holds when the call is made.
GetOp(key, then, tabId, url) ==
    [op |-> "get", key |-> key, value |-> session[key], then |-> then, tabId |-> tabId,
     url |-> url]
RemoveOp(key) ==
    [op |-> "remove", key |-> key, value |-> <<>>, then |-> "none", tabId |-> 0, url |-> <<>>]
Apply(store, o) ==
    CASE o.op = "set" -> [store EXCEPT ![o.key] = o.value]
      [] o.op = "remove" -> [store EXCEPT ![o.key] = <<>>]
      [] o.op = "get" -> store
RECURSIVE ApplyAll(_, _)
ApplyAll(store, ops) ==
    IF ops = <<>> THEN store ELSE ApplyAll(Apply(store, Head(ops)), Tail(ops))
\* The calls that were given a callback.
HasCallback(o) == o.then # "none"
WithCallback(ops) == SelectSeq(ops, HasCallback)
\* The keys a sequence of calls sets.
StoredKeys(ops) == {ops[i].key : i \in {j \in DOMAIN ops : ops[j].op = "set"}}
\* The callbacks of a page that is gone never run.
Orphaned(ops) == <<>>

\* background.js lines 10-17.
isInternalUrl(url) == url.scheme \in {"chrome://", "chrome-extension://", "about:", "edge://"}
\* host.includes("google.")
includesGoogle(hostname) == hostname \in {"www.google.com"}
\* background.js lines 23-37.
isSearchResultsPage(urlObj) ==
    \/ includesGoogle(urlObj.hostname) /\ urlObj.pathname = "/search"
    \/ urlObj.hostname = "www.bing.com" /\ urlObj.pathname = "/search"
    \/ urlObj.hostname = "duckduckgo.com" /\ urlObj.pathname = "/"
\* background.js lines 43-58: <<>> stands for null.
extractSearchRedirectTarget(urlObj) ==
    IF includesGoogle(urlObj.hostname) /\ urlObj.pathname = "/url"
    THEN (IF urlObj.dest.url # <<>> THEN urlObj.dest.url ELSE urlObj.dest.q)
    ELSE IF urlObj.hostname = "duckduckgo.com" /\ urlObj.pathname = "/l/"
         THEN urlObj.dest.uddg
         ELSE <<>>

\* A navigation the user starts: a link, the address bar, a frame of the page.
UserNavigate(t) ==
    /\ clicks < MaxClicks
    /\ \E e \in UserNavs : navigating' = [navigating EXCEPT ![t] = <<e>>]
    /\ clicks' = clicks + 1
    /\ UNCHANGED <<scan, web, extHist, tabUrl, session, bgOps, uiOps, messages, uiState, uiPc, now, details,
                   effects>>
\* The user reloads the UI page.
Reload(t) ==
    /\ clicks < MaxClicks
    /\ tabUrl[t] = uiUrl
    /\ navigating' = [navigating EXCEPT ![t] = <<Nav(uiUrl, 0, "reload")>>]
    /\ clicks' = clicks + 1
    /\ UNCHANGED <<scan, web, extHist, tabUrl, session, bgOps, uiOps, messages, uiState, uiPc, now, details,
                   effects>>
\* Time passes.
Tick ==
    /\ now + 15000 <= MaxNow
    /\ now' = now + 15000
    /\ UNCHANGED <<scan, web, extHist, tabUrl, navigating, session, bgOps, uiOps, messages, uiState, uiPc,
                   clicks, details, effects>>

\* The first listener, lines 80-124, up to its return: the storage calls it makes.
onBeforeNavigate(tabId, e) ==
    IF e.frameId # 0 \/ isInternalUrl(e.url) \/ e.url = uiUrl
    THEN <<>>
    ELSE IF extractSearchRedirectTarget(e.url) # <<>>
         THEN <<SetOp(pendingKey(tabId), extractSearchRedirectTarget(e.url)[1], "redirect", tabId)>>
         ELSE IF isSearchResultsPage(e.url)
              THEN <<>>
              ELSE <<GetOp(allowKey(tabId), "allowCheck", tabId, <<e.url>>)>>
\* The second listener, lines 126-142: whether it gets past its two returns, and
\* the storage call it makes then, before it calls chrome.tabs.update.
onBeforeNavigate2_Fires(e) ==
    e.frameId = 0 /\ e.url.scheme \notin {"chrome://", "chrome-extension://"}
onBeforeNavigate2(tabId, e) ==
    IF onBeforeNavigate2_Fires(e) THEN <<SetOp(PENDING_FALLBACK, e.url, "none", tabId)>> ELSE <<>>

\* lines 111: the allow window of the tab is open.
AllowWindowOpen(tabId) ==
    session[allowKey(tabId)] # <<>> /\ now < session[allowKey(tabId)][1]

\* The browser starts the navigation of tab t: both listeners are called with the
\* event, in the order they were added.  A chrome.tabs.update made by a listener
\* replaces the navigation; otherwise the tab goes to the URL and its page loads.
BeforeNavigate(t) ==
    /\ navigating[t] # <<>>
    /\ LET e == navigating[t][1]
           calls1 == onBeforeNavigate(t, e)
           calls2 == onBeforeNavigate2(t, e)
           commits == e.frameId = 0 /\ ~onBeforeNavigate2_Fires(e)
       IN  /\ session' = ApplyAll(session, calls1 \o calls2)
           /\ bgOps' = bgOps \o WithCallback(calls1 \o calls2)
           /\ navigating' = [navigating EXCEPT ![t] =
                  IF onBeforeNavigate2_Fires(e) THEN <<Nav(uiUrl, 0, "extension")>> ELSE <<>>]
           /\ tabUrl' = [tabUrl EXCEPT ![t] = IF commits THEN e.url ELSE @]
           /\ uiPc' = [uiPc EXCEPT ![t] =
                  IF commits THEN (IF e.url = uiUrl THEN "DOMContentLoaded" ELSE "closed") ELSE @]
           /\ uiState' = [uiState EXCEPT ![t] = IF commits THEN NoState ELSE @]
           /\ uiOps' = [uiOps EXCEPT ![t] = IF commits THEN Orphaned(@) ELSE @]
           /\ details' = <<[tabId |-> t, url |-> e.url, frameId |-> e.frameId, by |-> e.by]>>
           /\ effects' = [stored |-> StoredKeys(calls1 \o calls2),
                          redirected |-> onBeforeNavigate2_Fires(e),
                          allowed |-> AllowWindowOpen(t)]
           /\ attempted' = [attempted EXCEPT ![t] =
                  IF e.by = "user" /\ e.frameId = 0
                  THEN @ \cup {e.url} \cup {d : d \in {extractSearchRedirectTarget(e.url)[i] :
                                                 i \in DOMAIN extractSearchRedirectTarget(e.url)}}
                  ELSE @]
           /\ pageBy' = [pageBy EXCEPT ![t] = IF commits THEN e.by ELSE @]
           /\ consumedSince' =
                  IF StoredKeys(calls1 \o calls2) # {} THEN [x \in Tabs |-> FALSE]
                  ELSE consumedSince
    /\ UNCHANGED <<scan, web, messages, now, clicks>>

\* The callback of a storage call of the worker runs: the redirect of
\* lines 96-98 and 120-122, the allow check of lines 108-123, the response of
\* lines 69-71.
BgStorage ==
    /\ bgOps # <<>>
    /\ LET o == Head(bgOps)
           allowUntil == o.value
           issued == (IF allowUntil # <<>> THEN <<RemoveOp(o.key)>> ELSE <<>>)
                     \o <<SetOp(pendingKey(o.tabId), o.url[1], "redirect", o.tabId)>>
       IN  CASE o.then = "redirect" ->
                 /\ navigating' = [navigating EXCEPT ![o.tabId] = <<Nav(uiUrl, 0, "extension")>>]
                 /\ bgOps' = Tail(bgOps)
                 /\ UNCHANGED <<session, messages, consumedSince>>
             [] o.then = "allowCheck" ->
                 IF allowUntil # <<>> /\ now < allowUntil[1]
                 THEN /\ bgOps' = Tail(bgOps)
                      /\ UNCHANGED <<session, navigating, messages, consumedSince>>
                 ELSE /\ session' = ApplyAll(session, issued)
                      /\ bgOps' = Tail(bgOps) \o WithCallback(issued)
                      /\ consumedSince' = [x \in Tabs |-> FALSE]
                      /\ UNCHANGED <<navigating, messages>>
             [] o.then = "respond" ->
                 /\ messages' = messages \cup {[type |-> "response", tabId |-> o.tabId]}
                 /\ bgOps' = Tail(bgOps)
                 /\ UNCHANGED <<session, navigating, consumedSince>>
    /\ UNCHANGED <<scan, web, attempted, pageBy, tabUrl, uiOps, uiState, uiPc, now, clicks, details,
                   effects>>

\* intercepter.js lines 169-186 and 52-71: the page has loaded; it learns its tab
\* and asks for the pending URL of the tab.
Boot(t) ==
    /\ uiPc[t] = "DOMContentLoaded"
    /\ uiState' = [uiState EXCEPT ![t].tabId = <<t>>]
    /\ uiOps' = [uiOps EXCEPT ![t] = Append(@, GetOp(pendingKey(t), "perTab", t, <<>>))]
    /\ uiPc' = [uiPc EXCEPT ![t] = "loading"]
    /\ UNCHANGED <<scan, web, extHist, tabUrl, navigating, session, bgOps, messages, now, clicks, details,
                   effects>>

\* intercepter.js lines 186-204 with clearPendingUrl (lines 90-94): what the page
\* does with the URL it was given.
LoadCallback(t, url, usedKey, rest) ==
    /\ session' = Apply(session, RemoveOp(usedKey))
    /\ uiOps' = [uiOps EXCEPT ![t] = rest]
    /\ uiState' = [uiState EXCEPT ![t].site = <<url>>]
    /\ uiPc' = [uiPc EXCEPT ![t] = "analysing"]
    /\ consumedSince' = [consumedSince EXCEPT ![t] = TRUE]

\* The callback of a storage call of the UI page of tab t runs
\* (loadPendingUrl, lines 67-88).
UiStorage(t) ==
    /\ uiOps[t] # <<>>
    /\ LET o == Head(uiOps[t])
           found == o.value
           rest == Tail(uiOps[t])
       IN  CASE o.then = "perTab" ->
                 IF found # <<>>
                 THEN LoadCallback(t, found[1], o.key, rest)
                 ELSE /\ uiOps' = [uiOps EXCEPT ![t] =
                             Append(rest, GetOp(PENDING_FALLBACK, "fallback", t, <<>>))]
                      /\ UNCHANGED <<session, uiState, uiPc, consumedSince>>
             [] o.then = "fallback" ->
                 IF found # <<>>
                 THEN LoadCallback(t, found[1], PENDING_FALLBACK, rest)
                 ELSE /\ uiOps' = [uiOps EXCEPT ![t] = rest]
                      /\ uiPc' = [uiPc EXCEPT ![t] = "no_pending"]
                      /\ UNCHANGED <<session, uiState, consumedSince>>
    /\ UNCHANGED <<scan, web, attempted, pageBy, tabUrl, navigating, bgOps, messages, now, clicks,
                   details, effects>>

\* intercepter.js lines 148-156: "Continue to site" is clicked.
proceed(t) ==
    /\ tabUrl[t] = uiUrl
    /\ uiPc[t] \in {"loading", "analysing", "no_pending"}
    /\ clicks < MaxClicks
    /\ uiState[t].site # <<>>
    /\ messages' = messages \cup {[type |-> "ALLOW_NAV", tabId |-> t]}
    /\ clicks' = clicks + 1
    /\ UNCHANGED <<scan, web, extHist, tabUrl, navigating, session, bgOps, uiOps, uiState, uiPc, now, details,
                   effects>>

\* background.js lines 63-75: the worker receives ALLOW_NAV from the page of tab t.
onMessage(t) ==
    /\ [type |-> "ALLOW_NAV", tabId |-> t] \in messages
    /\ messages' = messages \ {[type |-> "ALLOW_NAV", tabId |-> t]}
    /\ session' = Apply(session, SetOp(allowKey(t), now + 15000, "respond", t))
    /\ bgOps' = Append(bgOps, SetOp(allowKey(t), now + 15000, "respond", t))
    /\ UNCHANGED <<scan, web, extHist, tabUrl, navigating, uiOps, uiState, uiPc, now, clicks,
                   details, effects>>

\* intercepter.js lines 156-159: the response arrives and the page sends its tab to
\* the site; a page that is gone by then does nothing.
ProceedCallback(t) ==
    /\ [type |-> "response", tabId |-> t] \in messages
    /\ messages' = messages \ {[type |-> "response", tabId |-> t]}
    /\ navigating' = [navigating EXCEPT ![t] =
           IF tabUrl[t] = uiUrl /\ uiState[t].site # <<>>
           THEN <<Nav(uiState[t].site[1], 0, "continue")>>
           ELSE @]
    /\ UNCHANGED <<scan, web, extHist, tabUrl, session, bgOps, uiOps, uiState, uiPc, now, clicks, details,
                   effects>>

NextExt ==
    \/ \E t \in Tabs : UserNavigate(t)
    \/ \E t \in Tabs : Reload(t)
    \/ Tick
    \/ \E t \in Tabs : BeforeNavigate(t)
    \/ BgStorage
    \/ \E t \in Tabs : Boot(t)
    \/ \E t \in Tabs : UiStorage(t)
    \/ \E t \in Tabs : proceed(t)
    \/ \E t \in Tabs : onMessage(t)
    \/ \E t \in Tabs : ProceedCallback(t)

InitExt ==
    /\ IPINFO_TOKEN = FALSE
    /\ ScanInit
    /\ ExtInit
    /\ WebInit

SpecExt == InitExt /\ [][NextExt]_vars

\* C13: the navigation that "Continue to site" starts in a tab, reaching the
\* listeners while the allow window of the tab is open, is let through: no listener
\* sends the tab to the UI page and none stores a pending URL.
C13_ContinueNotIntercepted ==
    (details # <<>> /\ details[1].by = "continue" /\ effects.allowed) =>
        /\ ~effects.redirected
        /\ effects.stored = {}

(***************************************************************************)
(* F_VF called a second time, later, on the record it has graded.          *)
(***************************************************************************)
\* Mutant: the evaluation empties the errors of the record it grades.
UI_ScoreAgain_DropsErrors ==
    /\ pc = "done"
    /\ now + 15000 <= MaxNow
    /\ now' = now + 15000
    /\ data' = Present([ValueOf(data) EXCEPT !.errors = <<>>])
    /\ vf' = Present(VFLocals(ValueOf(data')))
    /\ verdict' = Present(F_VF(ValueOf(data')))
    /\ UNCHANGED <<pc, env, hist, target, ips, geo, http, tlsInfo, whoisData, errors, outcome,
                   calls, fetches, saved, thrown, tabUrl, navigating, session, bgOps, uiOps,
                   messages, uiState, uiPc, clicks, details, effects, extHist,
                   web>>
UI_ScoreAgain ==
    /\ pc = "done"
    /\ now + 15000 <= MaxNow
    /\ now' = now + 15000
    /\ vf' = Present(VFLocals(ValueOf(data)))
    /\ verdict' = Present(F_VF(ValueOf(data)))
    /\ UNCHANGED <<pc, env, hist, target, ips, geo, http, tlsInfo, whoisData, errors, outcome,
                   calls, fetches, saved, thrown, data, tabUrl, navigating, session, bgOps,
                   uiOps, messages, uiState, uiPc, clicks, details, effects, extHist,
                   web>>

NextPure == UI_Score \/ UI_ScoreAgain

SpecPure == InitVF /\ [][NextPure]_vars

MaxLen == 3
NormAtoms == SchemeAtoms \cup HostAtoms \cup PathAtoms \cup {Blank}
NormInputs == UNION {[1..n -> NormAtoms] : n \in 0..MaxLen}

InitNorm ==
    /\ IPINFO_TOKEN = FALSE
    /\ ScanInit
    /\ ExtInit
    /\ WebInit

NormInput ==
    /\ pc = "F_Data"
    /\ \E raw \in NormInputs : urlClick' = raw
    /\ pc' = "normalizeUrl"
    /\ UNCHANGED <<env, ext, web, hist, targetUrl, host, whoisDomain, ips, geo, http, tlsInfo,
                   whoisData, errors, outcome, calls, fetches, saved, thrown, results>>
Normalize ==
    /\ pc = "normalizeUrl"
    /\ targetUrl' = normalizeUrl(urlClick)
    /\ pc' = "normalized"
    /\ UNCHANGED <<env, ext, web, hist, urlClick, host, whoisDomain, ips, geo, http, tlsInfo,
                   whoisData, errors, outcome, calls, fetches, saved, thrown, results>>
NormalizeAgain ==
    /\ pc = "normalized"
    /\ targetUrl' = normalizeUrl(targetUrl)
    /\ pc' = "normalized_twice"
    /\ UNCHANGED <<env, ext, web, hist, urlClick, host, whoisDomain, ips, geo, http, tlsInfo,
                   whoisData, errors, outcome, calls, fetches, saved, thrown, results>>

NextNorm == NormInput \/ Normalize \/ NormalizeAgain

SpecNorm == InitNorm /\ [][NextNorm]_vars

\* A text that begins with http:// or https://, in any case.
HasPrefix(text) == text # <<>> /\ text[1] \in SchemeAtoms
\* A text without the blanks at its two ends.
NonBlank(text) == {i \in DOMAIN text : text[i] # Blank}
Trimmed(text) ==
    IF NonBlank(text) = {} THEN <<>>
    ELSE SubSeq(text, CHOOSE i \in NonBlank(text) : \A j \in NonBlank(text) : i <= j,
                      CHOOSE i \in NonBlank(text) : \A j \in NonBlank(text) : j <= i)

\* C22 as stated: an input without the prefix comes back as https:// followed by
\* the input as it is, an input with the prefix comes back as it is, and
\* normalizing the result again changes nothing.
C22_NormalizeKeepsContent ==
    [][/\ pc' = "normalized" =>
            targetUrl' = (IF HasPrefix(urlClick') THEN urlClick' ELSE <<"https://">> \o urlClick')
       /\ pc = "normalized" => targetUrl' = targetUrl]_vars
\* C22 as amended: the same with the blanks at the two ends of the input removed
\* first, before the prefix is looked for and in what comes back.
C22_NormalizeKeepsContentAmended ==
    [][/\ pc' = "normalized" =>
            targetUrl' = (IF HasPrefix(Trimmed(urlClick')) THEN Trimmed(urlClick')
                          ELSE <<"https://">> \o Trimmed(urlClick'))
       /\ pc = "normalized" => targetUrl' = targetUrl]_vars
\* " a.com " was normalized to "https://a.com", twice.
C22_Witness ==
    /\ pc = "normalized_twice"
    /\ urlClick = <<Blank, "a.com", Blank>>
    /\ targetUrl = <<"https://", "a.com">>

(***************************************************************************)
(* More properties of the extension.                                       *)
(***************************************************************************)
SearchResultsPages == {GoogleResults, BingResults, DdgResults}
ClickRedirects == {GoogleClick, DdgClick}

\* C23: a main-frame navigation to a search results page is let through: no
\* listener sends the tab to the UI page and none stores a pending URL for it.
C23_SearchResultsLetThrough ==
    (details # <<>> /\ details[1].frameId = 0 /\ details[1].url \in SearchResultsPages) =>
        /\ ~effects.redirected
        /\ effects.stored = {}

\* C24: the URL the UI page of a tab has loaded is never a click-redirect URL the
\* user opened in that tab: for such a navigation it is the destination the URL
\* carries.
C24_RealDestinationShown ==
    \A t \in Tabs :
        uiState[t].site # <<>> => ~(uiState[t].site[1] \in ClickRedirects \cap attempted[t])

\* C25: a UI page loaded by a reload takes no pending URL when the page of the tab
\* has taken one before and no listener has stored a pending URL since.
C25_PendingConsumedOnce ==
    [][\A t \in Tabs :
          (pageBy[t] = "reload" /\ consumedSince[t] /\ uiState[t].site = <<>>) =>
              uiState'[t].site = <<>>]_vars

InvalidUrl == [valid |-> FALSE, protocol |-> "", tld |-> ""]
AnUrls ==
    {InvalidUrl} \cup
    {[valid |-> TRUE, protocol |-> p, tld |-> t] : p \in {"https:", "http:"}, t \in {"com", "zip", "xyz"}}
suspiciousTlds == {"zip", "mov", "top", "xyz", "click"}
\* The outcomes of a fetch that answers: res.status, the rounded time since start,
\* and whether the content-type header contains text/html.
FetchStatuses == {200, 399, 400, 403, 405}
TimesMs == {0, 799, 800, 3000, 3001}

Math_max(a, b) == IF a >= b THEN a ELSE b
Math_min(a, b) == IF a <= b THEN a ELSE b
\* analyzer.js lines 5-7.
clamp(n, min, max) == Math_max(min, Math_min(max, n))

\* analyzer.js lines 9-15.
scoreToColor(score) ==
    IF score < 20 THEN "Black"
    ELSE IF score < 40 THEN "Red"
    ELSE IF score < 60 THEN "Orange"
    ELSE IF score < 80 THEN "Yellow"
    ELSE "Green"

\* runAnalysis allows for a page that did not load analyzer.js.
InitAn ==
    /\ IPINFO_TOKEN = FALSE
    /\ ScanInit
    /\ ExtInit
    /\ window_analyzeUrl \in BOOLEAN
    /\ AnInit
    /\ DbInit

\* intercepter.js lines 122-133 and analyzer.js lines 17-52: runAnalysis up to its
\* await, analyzeUrl up to its first await or, for an invalid URL, its return.
runAnalysis(url) ==
    /\ anPc = "idle"
    /\ IF ~window_analyzeUrl
       THEN /\ statusText' = "Error: analyzer.js not loaded (window.analyzeUrl missing)."
            /\ anPc' = "returned"
            /\ UNCHANGED <<anUrl, anScore, anReasons, anFetched, anPromise, anResult>>
       ELSE /\ statusText' = "Analyzing..."
            /\ anUrl' = <<url>>
            /\ IF ~url.valid
               THEN /\ anScore' = 50
                    /\ anReasons' = <<>>
                    /\ anResult' = <<[score |-> 0, color |-> "Black",
                                      reasons |-> <<"Invalid URL">>, http |-> <<>>]>>
                    /\ anPromise' = "resolved"
                    /\ anPc' = "await"
                    /\ UNCHANGED anFetched
               ELSE LET https == url.protocol = "https:"
                        suspicious == url.tld \in suspiciousTlds
                    IN  /\ anScore' = 50 + (IF https THEN 15 ELSE -15)
                                         - (IF suspicious THEN 12 ELSE 0)
                        /\ anReasons' = <<IF https THEN "Uses HTTPS" ELSE "Not HTTPS">>
                                        \o (IF suspicious THEN <<"Suspicious TLD">> ELSE <<>>)
                        /\ anFetched' = <<"HEAD">>
                        /\ anPromise' = "pending"
                        /\ anPc' = "HEAD"
                        /\ UNCHANGED anResult
    /\ UNCHANGED <<scan, ext, window_analyzeUrl, anHttp, sites>>

\* analyzer.js lines 76-85: the score is rounded and clamped and the promise
\* resolves.
Resolve(score, reasons, res) ==
    /\ anScore' = clamp(score, 0, 100)
    /\ anReasons' = reasons
    /\ anHttp' = res
    /\ anResult' = <<[score |-> clamp(score, 0, 100), color |-> scoreToColor(clamp(score, 0, 100)),
                      reasons |-> reasons, http |-> res]>>
    /\ anPromise' = "resolved"
    /\ anPc' = "await"

\* analyzer.js lines 56-70, then 76-85.
Responded(status, timeMs, html) ==
    LET s1 == anScore + (IF status >= 200 /\ status < 400 THEN 10 ELSE -10)
        s2 == IF timeMs < 800 THEN s1 + 5 ELSE s1
        s3 == IF timeMs > 3000 THEN s2 - 5 ELSE s2
    IN  Resolve(IF html THEN s3 ELSE s3 - 5,
                IF html THEN anReasons ELSE Append(anReasons, "Not HTML content"),
                <<[status |-> status, timeMs |-> timeMs]>>)

\* analyzer.js lines 52-55: the HEAD request is answered; on 405 or 403 a GET is
\* issued.
HeadResponds ==
    /\ anPc = "HEAD"
    /\ \E status \in FetchStatuses, timeMs \in TimesMs, html \in BOOLEAN :
          IF status = 405 \/ status = 403
          THEN /\ anFetched' = Append(anFetched, "GET")
               /\ anPc' = "GET"
               /\ UNCHANGED <<anScore, anReasons, anHttp, anResult, anPromise>>
          ELSE /\ Responded(status, timeMs, html)
               /\ UNCHANGED anFetched
    /\ UNCHANGED <<scan, ext, window_analyzeUrl, anUrl, statusText, sites>>

\* analyzer.js line 54: the GET request is answered.
GetResponds ==
    /\ anPc = "GET"
    /\ \E status \in FetchStatuses, timeMs \in TimesMs, html \in BOOLEAN :
          Responded(status, timeMs, html)
    /\ UNCHANGED <<scan, ext, window_analyzeUrl, anUrl, anFetched, statusText, sites>>

FetchFails_Rethrows ==
    /\ anPc \in {"HEAD", "GET"}
    /\ anPromise' = "rejected"
    /\ anPc' = "await"
    /\ UNCHANGED <<scan, ext, window_analyzeUrl, anUrl, anScore, anReasons, anHttp, anResult,
                   anFetched, statusText, sites>>
\* analyzer.js lines 71-74, then 76-85: a fetch rejects.
FetchFails ==
    /\ anPc \in {"HEAD", "GET"}
    /\ Resolve(anScore - 8, Append(anReasons, "Fetch blocked/failed (common)"), <<>>)
    /\ UNCHANGED <<scan, ext, window_analyzeUrl, anUrl, anFetched, statusText, sites>>

\* intercepter.js lines 133-142: runAnalysis after its await.
runAnalysis_Resume ==
    /\ anPc = "await"
    /\ statusText' = (IF anPromise = "resolved" THEN "Done"
                      ELSE "Analysis failed (check console).")
    /\ anPc' = "returned"
    /\ UNCHANGED <<scan, ext, window_analyzeUrl, anUrl, anScore, anReasons, anHttp, anResult,
                   anFetched, anPromise, sites>>

NextAn ==
    \/ \E url \in AnUrls : runAnalysis(url)
    \/ HeadResponds
    \/ GetResponds
    \/ FetchFails
    \/ runAnalysis_Resume

\* The continuation of an await runs once the promise has settled.
SpecAn == InitAn /\ [][NextAn]_vars /\ WF_vars(runAnalysis_Resume)

\* The colour bands the analyzer's result is read by.
C27_Band(score) ==
    CASE score < 20 -> "Black"
      [] score >= 20 /\ score < 40 -> "Red"
      [] score >= 40 /\ score < 60 -> "Orange"
      [] score >= 60 /\ score < 80 -> "Yellow"
      [] score >= 80 -> "Green"
C27_Settled == anPromise \in {"resolved", "rejected"}
C27_ResultWellFormed ==
    /\ anPromise # "rejected"
    /\ anPromise = "resolved" <=> anResult # <<>>
    /\ anResult # <<>> =>
          /\ anResult[1].score \in 0..100
          /\ anResult[1].color = C27_Band(anResult[1].score)
    /\ (anResult # <<>> /\ ~anUrl[1].valid) =>
          /\ anResult[1].score = 0
          /\ anResult[1].color = "Black"
          /\ anResult[1].reasons = <<"Invalid URL">>
          /\ anFetched = <<>>
\* C27: analyzeUrl never rejects; whatever the input and the outcome of the
\* fetches, it resolves to a result with a whole score in 0..100 and the colour of
\* that score's band; an invalid URL gives score 0, Black and the one reason
\* "Invalid URL" with no fetch issued; and once the promise has settled the status
\* text leaves "Analyzing...".
C27_AnalyzerNeverRejects ==
    /\ []C27_ResultWellFormed
    /\ (C27_Settled ~> statusText # "Analyzing...")
\* The HEAD request was refused, the GET request failed, and the analysis is done.
C27_Witness ==
    /\ anPc = "returned"
    /\ anFetched = <<"HEAD", "GET">>
    /\ anResult # <<>> /\ anResult[1].http = <<>>
    /\ statusText = "Done"

(***************************************************************************)
(* websiteold.ts: the review database.  A number that is a quotient is     *)
(* kept as the pair <<numerator, denominator>> in lowest terms, so that    *)
(* equal numbers are equal pairs; the comparisons of calculateRanking give *)
(* the same answers on the pairs as on the doubles of the program for      *)
(* every list of whole ratings this model reaches.                         *)
(***************************************************************************)
MaxReviews == 3
Ratings == 0..6

RECURSIVE GCD(_, _)
GCD(a, b) == IF b = 0 THEN a ELSE GCD(b, a % b)
Frac(n, d) == <<n \div GCD(n, d), d \div GCD(n, d)>>
LessThan(q, k) == q[1] < k * q[2]

RECURSIVE SumOf(_)
SumOf(rs) == IF rs = <<>> THEN 0 ELSE Head(rs) + SumOf(Tail(rs))

\* websiteold.ts lines 5, 36-37: a site as constructed.
NewSite == [rankings |-> <<>>, rankingPercentage |-> Frac(0, 1), urlColor |-> "Gray"]

\* websiteold.ts lines 11-15.
Website_addReview(site, rating) ==
    IF rating >= 1 /\ rating <= 5 THEN [site EXCEPT !.rankings = Append(@, rating)] ELSE site

\* websiteold.ts lines 21-29.
totalReviews(site) == Len(site.rankings)
averageRating(site) ==
    IF Len(site.rankings) = 0 THEN Frac(0, 1)
    ELSE Frac(SumOf(site.rankings), Len(site.rankings))

\* websiteold.ts lines 39-53.
calculateRanking(site) ==
    LET avg == averageRating(site)
        rankingPercentage == Frac(avg[1] * 100, avg[2] * 5)
    IN  [site EXCEPT !.rankingPercentage = rankingPercentage,
                     !.urlColor = IF LessThan(rankingPercentage, 20) THEN "Black"
                                  ELSE IF LessThan(rankingPercentage, 40) THEN "Red"
                                  ELSE IF LessThan(rankingPercentage, 60) THEN "Orange"
                                  ELSE IF LessThan(rankingPercentage, 80) THEN "Yellow"
                                  ELSE "Green"]

\* websiteold.ts lines 55-65.
percentage(site) == site.rankingPercentage
color(site) == site.urlColor
shouldBlock(site) == site.urlColor = "Black"

\* websiteold.ts lines 71-76: the site getSite returns.
SiteOf(store, url) == IF store[url] = <<>> THEN NewSite ELSE store[url][1]

getSite(url) ==
    /\ sites' = [sites EXCEPT ![url] = <<SiteOf(sites, url)>>]
    /\ UNCHANGED <<scan, ext, analyzer>>

\* websiteold.ts lines 78-82.
addReview(url, rating) ==
    /\ (rating >= 1 /\ rating <= 5) => Len(SiteOf(sites, url).rankings) < MaxReviews
    /\ sites' = [sites EXCEPT ![url] =
                    <<calculateRanking(Website_addReview(SiteOf(sites, url), rating))>>]
    /\ UNCHANGED <<scan, ext, analyzer>>

InitDb ==
    /\ IPINFO_TOKEN = FALSE
    /\ ScanInit
    /\ ExtInit
    /\ WebInit

NextDb ==
    \/ \E url \in DbUrls : getSite(url)
    \/ \E url \in DbUrls, rating \in Ratings : addReview(url, rating)

SpecDb == InitDb /\ [][NextDb]_vars

\* What a caller can read of the site of a URL.
C28_Observable(store, url) ==
    [totalReviews |-> totalReviews(SiteOf(store, url)),
     averageRating |-> averageRating(SiteOf(store, url)),
     percentage |-> percentage(SiteOf(store, url)),
     color |-> color(SiteOf(store, url)),
     shouldBlock |-> shouldBlock(SiteOf(store, url))]
\* C28: addReview(url, rating) of the database with a rating outside 1..5 leaves
\* totalReviews, averageRating, percentage, color and shouldBlock of the site as
\* they were, so that no rejected rating puts a site into the blocked state.
C28_RejectedRatingChangesNothing ==
    [][\A url \in DbUrls, rating \in Ratings :
          (addReview(url, rating) /\ ~(rating >= 1 /\ rating <= 5)) =>
              C28_Observable(sites', url) = C28_Observable(sites, url)]_vars

====
